---- MODULE Spec2Model ----
(***************************************************************************)
(* Model of the thread pool of src/threadpool.go (package threadpool, the  *)
(* revision with Start/Stop/channelOpen, lines 367-787).                   *)
(*                                                                         *)
(* Every OS thread (the main thread 0 and the background workers 1..N-1)   *)
(* owns a call stack of frames.  One action is one synchronisation-free    *)
(* stretch of one thread: a critical section of a mutex, one channel       *)
(* operation, or one WaitGroup operation.                                  *)
(***************************************************************************)
EXTENDS Integers, Sequences, FiniteSets, TLC

\* ------------------------------------------------------------------ bounds
MaxThreads == 2     \* largest thread count New() is called with
MaxBuf     == 2     \* largest channel capacity New() is called with
MaxJobs    == 3     \* number of AddJob calls in one run
MaxGroup   == 1     \* job group ids are 0..MaxGroup
MaxIndex   == 5     \* the ranges of AddRangeJob are taken from 0..MaxIndex
MaxOld     == 1     \* workers of one id left over from before a Start()

VARIABLES
  threads,   \* threadPool.threads
  bufsize,   \* threadPool.bufsize
  channel,   \* threadPool.channel: the buffered jobs, oldest first
  closed,    \* threadPool.channel has been closed (Stop)
  cnt,       \* threadPool.cnt: the job group counter
  cntmtx,    \* threadPool.cntmtx: the thread holding it, or NoThread
  wgm,       \* threadPool.wgm: job group -> waitGroup object, or NoWG
  latch,     \* the waitGroup objects ever allocated: their cnt
  err,       \* threadPool.err: job group -> error, or Nil
  jobs,      \* every closure handed to AddJob, with its history
  epoch,     \* history: how often a job group was dropped by clear()
  stack      \* the call stack of every thread

vars == <<threads, bufsize, channel, closed, cnt, cntmtx, wgm, latch, err, jobs, epoch, stack>>

Nil      == 0     \* the nil error; the error of job j is the number j
NoWG     == 0     \* no entry in wgm
NoThread == -1

GroupIds == 0 .. MaxGroup
Threads  == 0 .. MaxThreads - 1

\* ------------------------------------------------------------------ frames
Frame(op, pc) ==
  [op |-> op, pc |-> pc, g |-> 0, wg |-> NoWG, j |-> 0, tid |-> 0, rv |-> Nil,
   pre |-> {}, ep |-> 0, lo |-> 0, hi |-> 0, n |-> 0, i |-> 0, bad |-> -1,
   old |-> FALSE]

Top(t)  == stack[t][Len(stack[t])]
Depth(t) == Len(stack[t])
At(t, op, pc) == Depth(t) > 0 /\ Top(t).op = op /\ Top(t).pc = pc

SetTop(s, f) == [s EXCEPT ![Len(s)] = f]
Pop(s)       == SubSeq(s, 1, Len(s) - 1)

\* Where the caller goes on when the function it called returns v.
After(fr, v) ==
  CASE fr.pc = "wk_run" -> IF v # Nil THEN "wk_seterr" ELSE "wk_recv"
    [] fr.pc = "w_run"  -> IF v # Nil THEN "w_seterr" ELSE "w_loop"
    [] fr.pc = "aj_run" -> IF v # Nil THEN "aj_seterr" ELSE "aj_ret"
    [] fr.pc = "jb_added" -> IF v # Nil THEN "jb_ret" ELSE "jb_wait"
    [] fr.pc = "jb_waited" -> "jb_ret"
    [] fr.pc = "c_range" -> "c_ranged"
    [] OTHER            -> fr.pc

\* The caller takes the return value v: a free client frame looks at none, a
\* client that asked for a job group keeps it (g := NewJobGroup()).
Deliver(fr, v) ==
  IF fr.pc \in {"idle", "body", "c_fill", "c_idle", "s_fill", "s_body", "s_end",
               "l_idle", "l_body"}
    THEN fr
  ELSE IF fr.pc = "c_new"
    THEN [fr EXCEPT !.g = v, !.pc = "c_fill"]
  ELSE IF fr.pc = "jb_new"
    THEN [fr EXCEPT !.g = v, !.pc = "jb_add"]
    ELSE [fr EXCEPT !.rv = v, !.pc = After(fr, v),
                    !.j = IF v = Nil /\ fr.pc \in {"wk_run", "w_run"} THEN 0 ELSE @]

\* return v from the top frame of s
Ret(s, v) == SetTop(Pop(s), Deliver(s[Len(s) - 1], v))

\* Thread t panics and no one recovers: the program ends, the other threads
\* are over.
Panic(t) ==
  [p \in DOMAIN stack |->
     IF p = t THEN SetTop(stack[t], [Top(t) EXCEPT !.pc = "panic"]) ELSE << >>]

\* ThreadPool.GetThreadId of a handle with the given threadId field
GetThreadId(id) == IF threads = 1 THEN 0 ELSE id

\* the handle of the code running on top of thread t
Handle(t) == Top(t).tid

\* ------------------------------------------------------------ construction
\* New(threads, bufsize), lines 765-787, with Start(), lines 468-482: thread 0 is
\* the caller of New, threads 1..threads-1 run worker(i).
InitPool(n, b) ==
  /\ threads = n
  /\ bufsize = b
  /\ channel = <<>>
  /\ closed = FALSE
  /\ cnt = 0
  /\ cntmtx = NoThread
  /\ wgm = [g \in GroupIds |-> NoWG]
  /\ latch = <<>>
  /\ err = [g \in GroupIds |-> Nil]
  /\ jobs = <<>>
  /\ epoch = [g \in GroupIds |-> 0]

\* mutant: the loop of Start starts at i = threads and starts no worker
StartNoWorker(n, prog) ==
  [t \in Threads |->
     IF t = 0 THEN << [Frame("main", prog) EXCEPT !.tid = 0] >> ELSE << >>]

\* mutant: the workers are started as worker(i+1)
StartShifted(n, prog) ==
  [t \in Threads |->
     IF t = 0 THEN << [Frame("main", prog) EXCEPT !.tid = 0] >>
     ELSE IF t < n THEN << [Frame("worker", "wk_recv") EXCEPT !.tid = t + 1] >>
     ELSE << >>]

Start(n, prog) ==
  [t \in Threads |->
     IF t = 0 THEN << [Frame("main", prog) EXCEPT !.tid = 0] >>
     ELSE IF t < n THEN << [Frame("worker", "wk_recv") EXCEPT !.tid = t] >>
     ELSE << >>]

\* -------------------------------------------------------------- registry
\* threadPool.setError
setError(e, jobGroup, v) == [e EXCEPT ![jobGroup] = v]

\* threadPool.getError
getError(jobGroup) == err[jobGroup]

\* waitGroup.Value
Value(wg) == latch[wg]

\* waitGroup.Add(1)
Add(l, wg) == [l EXCEPT ![wg] = @ + 1]

\* waitGroup.Done
Done(l, wg) == IF wg = NoWG THEN l ELSE [l EXCEPT ![wg] = @ - 1]

\* ---------------------------------------------------------------- jobs
\* f is the closure (the place its code starts at), lo and hi the range a
\* closure of AddRangeJob has captured and bad the index its f fails at (-1:
\* none); the other fields are history (res: what AddJob returned, inl: the
\* job was run by the select's default case, late: the job was in the channel
\* when Stop was called, first: AddJob has recorded the error of the job in
\* an empty slot).
NewJob(g, f, lo, hi, bad) ==
  [g |-> g, f |-> f, lo |-> lo, hi |-> hi, bad |-> bad, wg |-> NoWG, st |-> "new", runs |-> 0,
   added |-> FALSE, ret |-> Nil, ep |-> epoch[g], calls |-> <<>>,
   res |-> Nil, inl |-> FALSE, late |-> FALSE, first |-> FALSE]

\* job.f(ThreadPool{t, h}, getError): the closure of job j starts on a thread
\* with the handle h; wg is the waitGroup its wrapper decrements on return.
Invoked(js, j, h, t) ==
  [js EXCEPT ![j].st = "running", ![j].runs = @ + 1]

JobFrame(j, h, wg) ==
  [Frame("job", jobs[j].f) EXCEPT !.j = j, !.g = jobs[j].g, !.tid = h, !.wg = wg]

\* The closure of the job on top of thread t returns v: the wrapper of AddJob
\* (lines 644-647) runs the deferred wg.Done() and hands v to the caller.
JobReturns(t, v) ==
  /\ latch' = Done(latch, Top(t).wg)
  /\ jobs' = [jobs EXCEPT ![Top(t).j].st = "done", ![Top(t).j].ret = v]
  /\ stack' = [stack EXCEPT ![t] = Ret(@, v)]

\* ---------------------------------------------------------------- worker
\* threadPool.worker, lines 538-547: for job := range t.channel.  The loop
\* ranges over the channel the pool had when the worker was started (old: a
\* later Start has replaced that channel, which was closed and empty then).
WorkerRecv(t) ==
  /\ At(t, "worker", "wk_recv")
  /\ ~Top(t).old
  /\ channel # <<>>
  /\ LET j == Head(channel) IN
       /\ channel' = Tail(channel)
       /\ jobs' = Invoked(jobs, j, Top(t).tid, t)
       /\ stack' = [stack EXCEPT ![t] =
            Append(SetTop(@, [Top(t) EXCEPT !.pc = "wk_run", !.j = j]),
                   JobFrame(j, Top(t).tid, jobs[j].wg))]
  /\ UNCHANGED <<threads, bufsize, closed, cnt, cntmtx, wgm, latch, err, epoch>>

\* threadPool.worker, line 544: t.setError(job.jobGroup, err)
WorkerSetError(t) ==
  /\ At(t, "worker", "wk_seterr")
  /\ err' = setError(err, jobs[Top(t).j].g, Top(t).rv)
  /\ stack' = [stack EXCEPT ![t] = SetTop(@, [Top(t) EXCEPT !.pc = "wk_recv", !.rv = Nil, !.j = 0])]
  /\ UNCHANGED <<threads, bufsize, closed, channel, cnt, cntmtx, wgm, latch, jobs, epoch>>

\* threadPool.worker, line 539: the range loop ends when the channel is closed
\* and empty, and the goroutine of lines 477-480 is over
WorkerExit(t) ==
  /\ At(t, "worker", "wk_recv")
  /\ Top(t).old \/ (channel = <<>> /\ closed)
  /\ stack' = [stack EXCEPT ![t] = << >>]
  /\ UNCHANGED <<threads, bufsize, closed, channel, cnt, cntmtx, wgm, latch, err, jobs, epoch>>

\* ------------------------------------------------------------------ Stop
\* threadPool.Stop, lines 484-492, with channelOpen, lines 549-565
StopFrame(t) == [Frame("Stop", "st_check") EXCEPT !.tid = Handle(t)]

\* Lines 485-487: a pool of one thread (a nil *threadPool) returns.  Lines
\* 553-564, the select of channelOpen: a job is received (also from a closed
\* channel that still holds one), or the channel is closed and empty and Stop
\* returns (line 489), or the channel is open and empty (default).
StopCheck(t) ==
  /\ At(t, "Stop", "st_check")
  /\ IF threads = 1 \/ (closed /\ channel = <<>>)
       THEN /\ stack' = [stack EXCEPT ![t] = Ret(@, Nil)]
            /\ UNCHANGED channel
       ELSE IF channel # <<>>
         THEN /\ channel' = Tail(channel)
              /\ stack' = [stack EXCEPT ![t] =
                   SetTop(@, [Top(t) EXCEPT !.pc = "st_putback", !.j = Head(channel)])]
         ELSE /\ stack' = [stack EXCEPT ![t] = SetTop(@, [Top(t) EXCEPT !.pc = "st_close"])]
              /\ UNCHANGED channel
  /\ UNCHANGED <<threads, bufsize, closed, cnt, cntmtx, wgm, latch, err, jobs, epoch>>

\* mutant: channelOpen keeps the job it has received
StopPutBackLost(t) ==
  /\ At(t, "Stop", "st_putback")
  /\ stack' = [stack EXCEPT ![t] = SetTop(@, [Top(t) EXCEPT !.pc = "st_close", !.j = 0])]
  /\ UNCHANGED <<threads, bufsize, closed, channel, cnt, cntmtx, wgm, latch, err, jobs, epoch>>

\* Line 559: t.channel <- job, a send that waits for room in the channel and
\* panics when the channel has been closed.
StopPutBack(t) ==
  /\ At(t, "Stop", "st_putback")
  /\ IF closed
       THEN /\ stack' = Panic(t)
            /\ UNCHANGED channel
       ELSE /\ Len(channel) < bufsize
            /\ channel' = Append(channel, Top(t).j)
            /\ stack' = [stack EXCEPT ![t] =
                 SetTop(@, [Top(t) EXCEPT !.pc = "st_close", !.j = 0])]
  /\ UNCHANGED <<threads, bufsize, closed, cnt, cntmtx, wgm, latch, err, jobs, epoch>>

\* Line 491: close(t.channel), which panics when the channel has been closed.
StopClose(t) ==
  /\ At(t, "Stop", "st_close")
  /\ IF closed
       THEN /\ stack' = Panic(t)
            /\ UNCHANGED closed
       ELSE /\ closed' = TRUE
            /\ stack' = [stack EXCEPT ![t] = Ret(@, Nil)]
  /\ UNCHANGED <<threads, bufsize, channel, cnt, cntmtx, wgm, latch, err, jobs, epoch>>

\* ---------------------------------------------------------------- AddJob
\* ThreadPool.AddJob, lines 632-661, called with the handle of the caller
AddJobFrame(t, g) ==
  [Frame("AddJob", "aj_enter") EXCEPT !.g = g, !.j = Len(jobs) + 1, !.tid = Handle(t)]

\* lines 633-639: a pool of one thread runs f at once, without wrapper
AddJobDegenerate(t) ==
  /\ At(t, "AddJob", "aj_enter")
  /\ threads = 1
  /\ jobs' = Invoked(jobs, Top(t).j, Top(t).tid, t)
  /\ stack' = [stack EXCEPT ![t] =
       Append(SetTop(@, [Top(t) EXCEPT !.pc = "aj_direct"]),
              JobFrame(Top(t).j, Top(t).tid, NoWG))]
  /\ UNCHANGED <<threads, bufsize, closed, channel, cnt, cntmtx, wgm, latch, err, epoch>>

\* threadPool.getWaitGroup, lines 524-529: the lookup under the read lock
AddJobGetWaitGroup(t) ==
  /\ At(t, "AddJob", "aj_enter")
  /\ threads > 1
  /\ stack' = [stack EXCEPT ![t] = SetTop(@,
       IF wgm[Top(t).g] # NoWG
         THEN [Top(t) EXCEPT !.pc = "aj_add", !.wg = wgm[Top(t).g]]
         ELSE [Top(t) EXCEPT !.pc = "aj_store"])]
  /\ UNCHANGED <<threads, bufsize, closed, channel, cnt, cntmtx, wgm, latch, err, jobs, epoch>>

\* threadPool.getWaitGroup, lines 530-535: a new waitGroup is stored
AddJobStore(t) ==
  /\ At(t, "AddJob", "aj_store")
  /\ latch' = Append(latch, 0)
  /\ wgm' = [wgm EXCEPT ![Top(t).g] = Len(latch) + 1]
  /\ stack' = [stack EXCEPT ![t] = SetTop(@,
       [Top(t) EXCEPT !.pc = "aj_add", !.wg = Len(latch) + 1])]
  /\ UNCHANGED <<threads, bufsize, closed, channel, cnt, cntmtx, err, jobs, epoch>>

\* line 642: wg.Add(1)
AddJobAdd(t) ==
  /\ At(t, "AddJob", "aj_add")
  /\ latch' = Add(latch, Top(t).wg)
  /\ jobs' = [jobs EXCEPT ![Top(t).j].wg = Top(t).wg]
  /\ stack' = [stack EXCEPT ![t] = SetTop(@, [Top(t) EXCEPT !.pc = "aj_select"])]
  /\ UNCHANGED <<threads, bufsize, closed, channel, cnt, cntmtx, wgm, err, epoch>>

\* whether the select of line 648 can send
CanSend == Len(channel) < bufsize

\* mutant: the select of line 648 without its default case, a blocking send
NeverInline == FALSE

\* whether the select of line 648 takes its default case (line 650)
MustRunInline == Len(channel) >= bufsize

\* mutant: the job is buffered and, the select falling through, also run here
AddJobSendAndRun(t) ==
  /\ At(t, "AddJob", "aj_select")
  /\ CanSend
  /\ channel' = Append(channel, Top(t).j)
  /\ jobs' = Invoked(jobs, Top(t).j, Top(t).tid, t)
  /\ stack' = [stack EXCEPT ![t] =
       Append(SetTop(@, [Top(t) EXCEPT !.pc = "aj_run"]),
              JobFrame(Top(t).j, Top(t).tid, Top(t).wg))]
  /\ UNCHANGED <<threads, bufsize, closed, cnt, cntmtx, wgm, latch, err, epoch>>

\* lines 648-649 and 660: the job is buffered, AddJob returns nil
AddJobSend(t) ==
  /\ At(t, "AddJob", "aj_select")
  /\ ~closed
  /\ CanSend
  /\ channel' = Append(channel, Top(t).j)
  /\ jobs' = [jobs EXCEPT ![Top(t).j].st = "queued", ![Top(t).j].added = TRUE]
  /\ stack' = [stack EXCEPT ![t] = Ret(@, Nil)]
  /\ UNCHANGED <<threads, bufsize, closed, cnt, cntmtx, wgm, latch, err, epoch>>

\* mutant: the job that is run here is given the handle of the main thread
AddJobInlineMain(t) ==
  /\ At(t, "AddJob", "aj_select")
  /\ MustRunInline
  /\ jobs' = [Invoked(jobs, Top(t).j, 0, t) EXCEPT ![Top(t).j].inl = TRUE]
  /\ stack' = [stack EXCEPT ![t] =
       Append(SetTop(@, [Top(t) EXCEPT !.pc = "aj_run"]),
              JobFrame(Top(t).j, 0, Top(t).wg))]
  /\ UNCHANGED <<threads, bufsize, closed, channel, cnt, cntmtx, wgm, latch, err, epoch>>

\* line 649: the send case of the select on a channel that has been closed
\* is chosen and panics (send on closed channel)
AddJobPanic(t) ==
  /\ At(t, "AddJob", "aj_select")
  /\ closed
  /\ stack' = Panic(t)
  /\ UNCHANGED <<threads, bufsize, closed, channel, cnt, cntmtx, wgm, latch, err, jobs, epoch>>

\* lines 650-655: the buffer is full, the wrapped job runs here
AddJobInline(t) ==
  /\ At(t, "AddJob", "aj_select")
  /\ ~closed
  /\ MustRunInline
  /\ jobs' = [Invoked(jobs, Top(t).j, Top(t).tid, t) EXCEPT ![Top(t).j].inl = TRUE]
  /\ stack' = [stack EXCEPT ![t] =
       Append(SetTop(@, [Top(t) EXCEPT !.pc = "aj_run"]),
              JobFrame(Top(t).j, Top(t).tid, Top(t).wg))]
  /\ UNCHANGED <<threads, bufsize, closed, channel, cnt, cntmtx, wgm, latch, err, epoch>>

\* line 656 and 660: t.setError(jobGroup, err); return nil
AddJobSetError(t) ==
  /\ At(t, "AddJob", "aj_seterr")
  /\ err' = setError(err, Top(t).g, Top(t).rv)
  /\ jobs' = [jobs EXCEPT ![Top(t).j].added = TRUE,
                          ![Top(t).j].first = (getError(Top(t).g) = Nil)]
  /\ stack' = [stack EXCEPT ![t] = Ret(@, Nil)]
  /\ UNCHANGED <<threads, bufsize, closed, channel, cnt, cntmtx, wgm, latch, epoch>>

\* mutant: AddJob of a pool of one thread drops the error of f
AddJobResultNil(fr) == Nil

\* what AddJob returns after it has run the job itself: nil after an inline
\* run (line 660), the error of f on a pool of one thread (lines 637-639)
AddJobResult(fr) == IF fr.pc = "aj_direct" THEN fr.rv ELSE Nil

\* line 660: return nil after an inline run; line 638: return err of a pool
\* of one thread
AddJobReturn(t) ==
  /\ Depth(t) > 0 /\ Top(t).op = "AddJob" /\ Top(t).pc \in {"aj_ret", "aj_direct"}
  /\ jobs' = [jobs EXCEPT ![Top(t).j].added = TRUE, ![Top(t).j].res = AddJobResult(Top(t))]
  /\ stack' = [stack EXCEPT ![t] = Ret(@, AddJobResult(Top(t)))]
  /\ UNCHANGED <<threads, bufsize, closed, channel, cnt, cntmtx, wgm, latch, err, epoch>>

\* ------------------------------------------------------------------ Wait
\* ThreadPool.Wait, lines 587-625, called with the handle of the caller.  pre
\* and ep are history: the jobs of the group whose AddJob had returned when
\* Wait was called, and the number of times the group had been dropped then.
WaitFrame(t, g) ==
  [Frame("Wait", "w_enter") EXCEPT
     !.g = g, !.tid = Handle(t), !.ep = epoch[g],
     !.pre = {j \in 1 .. Len(jobs) : jobs[j].g = g /\ jobs[j].added}]

\* mutant: without a waitGroup of the job group Wait goes on to getError and
\* clear instead of returning
WaitEnterUnknownBreak(t) ==
  /\ At(t, "Wait", "w_enter")
  /\ stack' = [stack EXCEPT ![t] = SetTop(@,
       IF threads = 1
         THEN [Top(t) EXCEPT !.pc = "w_ret", !.rv = Nil]
       ELSE IF wgm[Top(t).g] = NoWG
         THEN [Top(t) EXCEPT !.pc = "w_geterr"]
         ELSE [Top(t) EXCEPT !.pc = "w_loop", !.wg = wgm[Top(t).g]])]
  /\ UNCHANGED <<threads, bufsize, closed, channel, cnt, cntmtx, wgm, latch, err, jobs, epoch>>

\* mutant: a pool of one thread leaves the loop (break LOOP) instead of
\* returning
WaitEnterBreak(t) ==
  /\ At(t, "Wait", "w_enter")
  /\ stack' = [stack EXCEPT ![t] = SetTop(@,
       IF threads = 1
         THEN [Top(t) EXCEPT !.pc = "w_geterr"]
       ELSE IF wgm[Top(t).g] = NoWG
         THEN [Top(t) EXCEPT !.pc = "w_ret", !.rv = Nil]
         ELSE [Top(t) EXCEPT !.pc = "w_loop", !.wg = wgm[Top(t).g]])]
  /\ UNCHANGED <<threads, bufsize, closed, channel, cnt, cntmtx, wgm, latch, err, jobs, epoch>>

\* lines 588-598: one thread, or no waitGroup of that job group: return nil
WaitEnter(t) ==
  /\ At(t, "Wait", "w_enter")
  /\ stack' = [stack EXCEPT ![t] = SetTop(@,
       IF threads = 1 \/ wgm[Top(t).g] = NoWG
         THEN [Top(t) EXCEPT !.pc = "w_ret", !.rv = Nil]
         ELSE [Top(t) EXCEPT !.pc = "w_loop", !.wg = wgm[Top(t).g]])]
  /\ UNCHANGED <<threads, bufsize, closed, channel, cnt, cntmtx, wgm, latch, err, jobs, epoch>>

\* lines 602-604: if wg.Value() == 0 { break LOOP }
WaitLoop(t) ==
  /\ At(t, "Wait", "w_loop")
  /\ stack' = [stack EXCEPT ![t] = SetTop(@,
       [Top(t) EXCEPT !.pc = IF Value(Top(t).wg) = 0 THEN "w_geterr" ELSE "w_select"])]
  /\ UNCHANGED <<threads, bufsize, closed, channel, cnt, cntmtx, wgm, latch, err, jobs, epoch>>

\* mutant: Wait runs the jobs it takes with a handle of thread id 0
WaitHandleZero(fr) == 0

\* the handle Wait passes to a job it runs (line 610: job.f(t, getError))
WaitHandle(fr) == fr.tid

\* lines 605-610: a job is taken from the channel and run here
WaitRecv(t) ==
  /\ At(t, "Wait", "w_select")
  /\ channel # <<>>
  /\ LET j == Head(channel) IN
       /\ channel' = Tail(channel)
       /\ jobs' = Invoked(jobs, j, WaitHandle(Top(t)), t)
       /\ stack' = [stack EXCEPT ![t] =
            Append(SetTop(@, [Top(t) EXCEPT !.pc = "w_run", !.j = j]),
                   JobFrame(j, WaitHandle(Top(t)), jobs[j].wg))]
  /\ UNCHANGED <<threads, bufsize, closed, cnt, cntmtx, wgm, latch, err, epoch>>

\* mutant: Wait records the error under the job group it is waiting for
WaitSetErrorWaited(t) ==
  /\ At(t, "Wait", "w_seterr")
  /\ err' = setError(err, Top(t).g, Top(t).rv)
  /\ stack' = [stack EXCEPT ![t] = SetTop(@, [Top(t) EXCEPT !.pc = "w_loop", !.rv = Nil, !.j = 0])]
  /\ UNCHANGED <<threads, bufsize, closed, channel, cnt, cntmtx, wgm, latch, jobs, epoch>>

\* line 611: t.setError(job.jobGroup, err)
WaitSetError(t) ==
  /\ At(t, "Wait", "w_seterr")
  /\ err' = setError(err, jobs[Top(t).j].g, Top(t).rv)
  /\ stack' = [stack EXCEPT ![t] = SetTop(@, [Top(t) EXCEPT !.pc = "w_loop", !.rv = Nil, !.j = 0])]
  /\ UNCHANGED <<threads, bufsize, closed, channel, cnt, cntmtx, wgm, latch, jobs, epoch>>

\* mutant: Wait goes to wg.Wait() although jobs are in the channel
WaitDefaultAlways(t) ==
  /\ At(t, "Wait", "w_select")
  /\ stack' = [stack EXCEPT ![t] = SetTop(@, [Top(t) EXCEPT !.pc = "w_block"])]
  /\ UNCHANGED <<threads, bufsize, closed, channel, cnt, cntmtx, wgm, latch, err, jobs, epoch>>

\* lines 606-610: the receive from a channel that is closed and empty gives
\* the zero value of job at once; its f is nil and the call job.f(t, getError)
\* panics
WaitRecvZero(t) ==
  /\ At(t, "Wait", "w_select")
  /\ channel = <<>> /\ closed
  /\ stack' = Panic(t)
  /\ UNCHANGED <<threads, bufsize, closed, channel, cnt, cntmtx, wgm, latch, err, jobs, epoch>>

\* lines 613-617: the channel is open and empty, the thread goes to wg.Wait()
WaitDefault(t) ==
  /\ At(t, "Wait", "w_select")
  /\ channel = <<>> /\ ~closed
  /\ stack' = [stack EXCEPT ![t] = SetTop(@, [Top(t) EXCEPT !.pc = "w_block"])]
  /\ UNCHANGED <<threads, bufsize, closed, channel, cnt, cntmtx, wgm, latch, err, jobs, epoch>>

\* line 616: wg.Wait() returns when the counter is zero
WaitBlock(t) ==
  /\ At(t, "Wait", "w_block")
  /\ Value(Top(t).wg) = 0
  /\ stack' = [stack EXCEPT ![t] = SetTop(@, [Top(t) EXCEPT !.pc = "w_geterr"])]
  /\ UNCHANGED <<threads, bufsize, closed, channel, cnt, cntmtx, wgm, latch, err, jobs, epoch>>

\* line 622: err := t.getError(jobGroup)
WaitGetError(t) ==
  /\ At(t, "Wait", "w_geterr")
  /\ stack' = [stack EXCEPT ![t] = SetTop(@,
       [Top(t) EXCEPT !.pc = "w_clear", !.rv = getError(Top(t).g), !.j = 0])]
  /\ UNCHANGED <<threads, bufsize, closed, channel, cnt, cntmtx, wgm, latch, err, jobs, epoch>>

\* threadPool.clear, lines 513-516: delete(t.err, jobGroup)
WaitClearError(t) ==
  /\ At(t, "Wait", "w_clear")
  /\ err' = [err EXCEPT ![Top(t).g] = Nil]
  /\ stack' = [stack EXCEPT ![t] = SetTop(@, [Top(t) EXCEPT !.pc = "w_drop"])]
  /\ UNCHANGED <<threads, bufsize, closed, channel, cnt, cntmtx, wgm, latch, jobs, epoch>>

\* threadPool.clear, lines 517-520: delete(t.wgm, jobGroup)
WaitClearGroup(t) ==
  /\ At(t, "Wait", "w_drop")
  /\ wgm' = [wgm EXCEPT ![Top(t).g] = NoWG]
  /\ epoch' = [epoch EXCEPT ![Top(t).g] = @ + 1]
  /\ stack' = [stack EXCEPT ![t] = SetTop(@, [Top(t) EXCEPT !.pc = "w_ret"])]
  /\ UNCHANGED <<threads, bufsize, closed, channel, cnt, cntmtx, latch, err, jobs>>

\* lines 589, 596, 624: Wait returns
WaitReturn(t) ==
  /\ At(t, "Wait", "w_ret")
  /\ stack' = [stack EXCEPT ![t] = Ret(@, Top(t).rv)]
  /\ UNCHANGED <<threads, bufsize, closed, channel, cnt, cntmtx, wgm, latch, err, jobs, epoch>>

\* ------------------------------------------------------------ the pool's steps
PoolStep(t) ==
  \/ WorkerRecv(t)
  \/ WorkerSetError(t)
  \/ AddJobGetWaitGroup(t)
  \/ AddJobStore(t)
  \/ AddJobAdd(t)
  \/ AddJobSend(t)
  \/ AddJobInline(t)
  \/ AddJobSetError(t)
  \/ AddJobReturn(t)
  \/ WaitEnter(t)
  \/ WaitLoop(t)
  \/ WaitRecv(t)
  \/ WaitSetError(t)
  \/ WaitDefault(t)
  \/ WaitBlock(t)
  \/ WaitGetError(t)
  \/ WaitClearError(t)
  \/ WaitClearGroup(t)
  \/ WaitReturn(t)

\* ------------------------------------------------------------ client code
\* The program of the main thread and the closures handed to AddJob are the
\* callers' code.  In the specification Spec they are arbitrary: wherever the
\* main program or a closure stands, it may call AddJob or Wait with any job
\* group, and a closure may return nil or an error of its own.
InClient(t) == Depth(t) > 0 /\ Top(t).pc \in {"idle", "body"}

ClientAddJob(t, g) ==
  /\ InClient(t)
  /\ Len(jobs) < MaxJobs
  /\ jobs' = Append(jobs, NewJob(g, "body", 0, 0, -1))
  /\ stack' = [stack EXCEPT ![t] = Append(@, AddJobFrame(t, g))]
  /\ UNCHANGED <<threads, bufsize, closed, channel, cnt, cntmtx, wgm, latch, err, epoch>>

ClientWait(t, g) ==
  /\ At(t, "main", "idle")
  /\ stack' = [stack EXCEPT ![t] = Append(@, WaitFrame(t, g))]
  /\ UNCHANGED <<threads, bufsize, closed, channel, cnt, cntmtx, wgm, latch, err, jobs, epoch>>

ClientReturn(t, fail) ==
  /\ At(t, "job", "body")
  /\ JobReturns(t, IF fail THEN Top(t).j ELSE Nil)
  /\ UNCHANGED <<threads, bufsize, closed, channel, cnt, cntmtx, wgm, err, epoch>>

Init ==
  /\ \E n \in 1 .. MaxThreads, b \in 1 .. MaxBuf : InitPool(n, b)
  /\ stack = Start(threads, "idle")

\* the steps of thread t
Step(t) ==
  \/ PoolStep(t)
  \/ AddJobDegenerate(t)
  \/ \E g \in GroupIds : ClientAddJob(t, g)
  \/ \E g \in GroupIds : ClientWait(t, g)
  \/ \E fail \in BOOLEAN : ClientReturn(t, fail)

Next == \E t \in Threads : Step(t)

Spec == Init /\ [][Next]_vars

\* ----------------------------------------------- client code: error probes
\* The getError closures handed to a job (lines 540-542, 607-609, 652-654):
\* the error recorded for the group of the job; on a pool of one thread (lines
\* 634-636) nil.
Probe(fr) == IF threads = 1 THEN Nil ELSE getError(fr.g)

\* The closure on top of thread t calls erf(), as the closures of TestTest1
\* and README example 3 do; it keeps what it got in its frame (rv).
ClientProbe(t) ==
  /\ At(t, "job", "body")
  /\ stack' = [stack EXCEPT ![t] = SetTop(@, [Top(t) EXCEPT !.rv = Probe(Top(t))])]
  /\ UNCHANGED <<threads, bufsize, closed, channel, cnt, cntmtx, wgm, latch, err, jobs, epoch>>

NextProbe ==
  \E t \in Threads :
    \/ Step(t)
    \/ ClientProbe(t)

\* the free client of Spec whose closures also call their error probe
SpecProbe == Init /\ [][NextProbe]_vars

\* ------------------------------------------- client code: stopping the pool
\* The main program adds jobs whose closures only return (nil or an error),
\* may wait for a job group, and in the end calls Stop once.
StopAddJob(t, g) ==
  /\ At(t, "main", "s_fill")
  /\ Len(jobs) < MaxJobs
  /\ jobs' = Append(jobs, NewJob(g, "s_body", 0, 0, -1))
  /\ stack' = [stack EXCEPT ![t] = Append(@, AddJobFrame(t, g))]
  /\ UNCHANGED <<threads, bufsize, closed, channel, cnt, cntmtx, wgm, latch, err, epoch>>

StopWait(t, g) ==
  /\ At(t, "main", "s_fill")
  /\ stack' = [stack EXCEPT ![t] = Append(@, WaitFrame(t, g))]
  /\ UNCHANGED <<threads, bufsize, closed, channel, cnt, cntmtx, wgm, latch, err, jobs, epoch>>

StopCall(t) ==
  /\ At(t, "main", "s_fill")
  /\ jobs' = [j \in 1 .. Len(jobs) |->
       [jobs[j] EXCEPT !.late = \E k \in 1 .. Len(channel) : channel[k] = j]]
  /\ stack' = [stack EXCEPT ![t] =
       Append(SetTop(@, [Top(t) EXCEPT !.pc = "s_end"]), StopFrame(t))]
  /\ UNCHANGED <<threads, bufsize, closed, channel, cnt, cntmtx, wgm, latch, err, epoch>>

StopJobReturn(t, fail) ==
  /\ At(t, "job", "s_body")
  /\ JobReturns(t, IF fail THEN Top(t).j ELSE Nil)
  /\ UNCHANGED <<threads, bufsize, closed, channel, cnt, cntmtx, wgm, err, epoch>>

InitStop ==
  /\ \E n \in 1 .. MaxThreads, b \in 1 .. MaxBuf : InitPool(n, b)
  /\ stack = Start(threads, "s_fill")

\* the steps of thread t
StepStop(t) ==
  \/ PoolStep(t)
  \/ AddJobDegenerate(t)
  \/ WorkerExit(t)
  \/ StopCheck(t)
  \/ StopPutBack(t)
  \/ StopClose(t)
  \/ \E g \in GroupIds : StopAddJob(t, g)
  \/ \E g \in GroupIds : StopWait(t, g)
  \/ StopCall(t)
  \/ \E fail \in BOOLEAN : StopJobReturn(t, fail)

NextStop == \E t \in Threads : StepStop(t)

\* Every thread is an OS thread (a goroutine): one that can go on does.
SpecStop == InitStop /\ [][NextStop]_vars /\ \A t \in Threads : WF_vars(StepStop(t))

\* --------------------------------------------- client code: building a pool
\* The main program calls New(n, b) with any n and b, also invalid ones, and
\* then goes on as the client above.  Before New there is no pool: no thread
\* count, no channel, no worker.  The main frame keeps n and b (fields n, i).
NewValid(n, b) == n >= 1 /\ b >= 1

\* mutant: New does not look at bufsize
NewCallNoBufsizeCheck(t) ==
  /\ At(t, "main", "n_start")
  /\ IF Top(t).n < 1
       THEN /\ stack' = [stack EXCEPT ![t] = SetTop(@, [Top(t) EXCEPT !.pc = "panic"])]
            /\ UNCHANGED <<threads, bufsize>>
       ELSE /\ threads' = Top(t).n
            /\ bufsize' = Top(t).i
            /\ stack' = [Start(Top(t).n, "s_fill") EXCEPT
                            ![0] = << [@[1] EXCEPT !.n = Top(t).n, !.i = Top(t).i] >>]
  /\ UNCHANGED <<closed, channel, cnt, cntmtx, wgm, latch, err, jobs, epoch>>

\* New, lines 765-787: the panics of lines 766-771, else the pool of lines
\* 772-786 with its workers started (Start, lines 475-481)
NewCall(t) ==
  /\ At(t, "main", "n_start")
  /\ IF ~NewValid(Top(t).n, Top(t).i)
       THEN /\ stack' = [stack EXCEPT ![t] = SetTop(@, [Top(t) EXCEPT !.pc = "panic"])]
            /\ UNCHANGED <<threads, bufsize>>
       ELSE /\ threads' = Top(t).n
            /\ bufsize' = Top(t).i
            /\ stack' = [Start(Top(t).n, "s_fill") EXCEPT
                            ![0] = << [@[1] EXCEPT !.n = Top(t).n, !.i = Top(t).i] >>]
  /\ UNCHANGED <<closed, channel, cnt, cntmtx, wgm, latch, err, jobs, epoch>>

InitNew ==
  /\ InitPool(0, 0)
  /\ \E n \in -1 .. MaxThreads, b \in -1 .. MaxBuf :
       stack = [t \in Threads |->
                  IF t = 0 THEN << [Frame("main", "n_start") EXCEPT !.n = n, !.i = b] >>
                  ELSE << >>]

NextNew ==
  \E t \in Threads :
    \/ NewCall(t)
    \/ StepStop(t)

SpecNew == InitNew /\ [][NextNew]_vars

\* ------------------------------------------------------------ NewJobGroup
\* threadPool.NewJobGroup, lines 439-456
NewJobGroupFrame(t) == [Frame("NewJobGroup", "njg") EXCEPT !.tid = Handle(t)]

\* whether job group i has a waitGroup (line 450)
Taken(i) == i \in GroupIds /\ wgm[i] # NoWG

\* mutant: the counter is returned whether or not a waitGroup has that id
NewJobGroupNoSkip(t) ==
  /\ At(t, "NewJobGroup", "njg")
  /\ IF threads = 1
       THEN /\ stack' = [stack EXCEPT ![t] = Ret(@, 0)]
            /\ UNCHANGED <<cnt, cntmtx>>
       ELSE /\ cntmtx \in {NoThread, t}
            /\ cnt' = cnt + 1
            /\ cntmtx' = NoThread
            /\ stack' = [stack EXCEPT ![t] = Ret(@, cnt)]
  /\ UNCHANGED <<threads, bufsize, closed, channel, wgm, latch, err, jobs, epoch>>

\* One turn of the loop of lines 445-455 under cntmtx; a pool of one thread
\* (a nil *threadPool) returns 0.
NewJobGroupStep(t) ==
  /\ At(t, "NewJobGroup", "njg")
  /\ IF threads = 1
       THEN /\ stack' = [stack EXCEPT ![t] = Ret(@, 0)]
            /\ UNCHANGED <<cnt, cntmtx>>
       ELSE /\ cntmtx \in {NoThread, t}
            /\ cnt' = cnt + 1
            /\ cntmtx' = IF Taken(cnt) THEN t ELSE NoThread
            /\ stack' = [stack EXCEPT ![t] = IF Taken(cnt) THEN @ ELSE Ret(@, cnt)]
  /\ UNCHANGED <<threads, bufsize, closed, channel, wgm, latch, err, jobs, epoch>>

\* ------------------------------------------------------------ AddRangeJob
\* ThreadPool.NumberOfThreads, lines 460-466
NumberOfThreads == threads

Min(a, b) == IF a < b THEN a ELSE b

\* lines 669-673: n := (iTo-iFrom)/m with m the smaller of the number of
\* threads and the length of the range
ChunkSize(iFrom, iTo) == (iTo - iFrom) \div Min(NumberOfThreads, iTo - iFrom)

\* ThreadPool.AddRangeJob, lines 665-692, called with the handle of the caller
AddRangeJobFrame(t, iFrom, iTo, g, bad) ==
  [Frame("AddRangeJob", "ar_loop") EXCEPT
     !.lo = iFrom, !.hi = iTo, !.g = g, !.tid = Handle(t), !.i = iFrom, !.bad = bad,
     !.n = IF iFrom >= iTo THEN 0 ELSE ChunkSize(iFrom, iTo)]

\* mutant: the last chunk is not cut at iTo
ChunkEndUncut(j, n, iTo) == j + n

\* lines 675-679: the end of the chunk that starts at j
ChunkEnd(j, n, iTo) == IF j + n > iTo THEN iTo ELSE j + n

\* mutant: a range with iFrom = iTo is not taken for empty
AddRangeJobLoopOff(t) ==
  /\ At(t, "AddRangeJob", "ar_loop")
  /\ LET fr == Top(t) IN
       IF fr.rv # Nil \/ fr.i > fr.hi
         THEN /\ stack' = [stack EXCEPT ![t] = Ret(@, fr.rv)]
              /\ UNCHANGED jobs
         ELSE /\ jobs' = Append(jobs,
                   NewJob(fr.g, "chunk", fr.i, ChunkEnd(fr.i, fr.n, fr.hi), fr.bad))
              /\ stack' = [stack EXCEPT ![t] =
                   Append(SetTop(@, [fr EXCEPT !.i = fr.i + fr.n]), AddJobFrame(t, fr.g))]
  /\ UNCHANGED <<threads, bufsize, closed, channel, cnt, cntmtx, wgm, latch, err, epoch>>

\* One turn of the loop of lines 674-690: the error of the last AddJob is
\* returned, or the next chunk [j, j+n) cut at iTo is submitted, or the loop
\* ends (at once, when iFrom >= iTo).
AddRangeJobLoop(t) ==
  /\ At(t, "AddRangeJob", "ar_loop")
  /\ LET fr == Top(t) IN
       IF fr.rv # Nil \/ fr.i >= fr.hi
         THEN /\ stack' = [stack EXCEPT ![t] = Ret(@, fr.rv)]
              /\ UNCHANGED jobs
         ELSE /\ jobs' = Append(jobs,
                   NewJob(fr.g, "chunk", fr.i, ChunkEnd(fr.i, fr.n, fr.hi), fr.bad))
              /\ stack' = [stack EXCEPT ![t] =
                   Append(SetTop(@, [fr EXCEPT !.i = fr.i + fr.n]), AddJobFrame(t, fr.g))]
  /\ UNCHANGED <<threads, bufsize, closed, channel, cnt, cntmtx, wgm, latch, err, epoch>>

\* mutant: the loop goes on after an error of f
ChunkLoopOn(i, iTo, bad, acc) ==
  [calls |-> acc \o [k \in 1 .. iTo - i |-> i + k - 1], failed |-> bad \in i .. iTo - 1]

\* The loop of lines 681-685 from index i on: the indices f is called with,
\* in order, and whether the loop ended with an error of f (f fails at bad).
RECURSIVE ChunkLoop(_, _, _, _)
ChunkLoop(i, iTo, bad, acc) ==
  IF i >= iTo THEN [calls |-> acc, failed |-> FALSE]
  ELSE IF i = bad THEN [calls |-> Append(acc, i), failed |-> TRUE]
  ELSE ChunkLoop(i + 1, iTo, bad, Append(acc, i))

\* lines 680-687: the closure of a chunk runs f over its range and returns
ChunkRun(t) ==
  /\ At(t, "job", "chunk")
  /\ LET j == Top(t).j
         r == ChunkLoop(jobs[j].lo, jobs[j].hi, jobs[j].bad, <<>>)
         v == IF r.failed THEN j ELSE Nil
     IN
       /\ latch' = Done(latch, Top(t).wg)
       /\ jobs' = [jobs EXCEPT ![j].st = "done", ![j].ret = v,
                               ![j].calls = @ \o r.calls]
       /\ stack' = [stack EXCEPT ![t] = Ret(@, v)]
  /\ UNCHANGED <<threads, bufsize, closed, channel, cnt, cntmtx, wgm, err, epoch>>

\* ------------------------------------------------- client code: a range job
\* The main program of README examples 2 and 3: AddRangeJob(lo, hi, 0, f),
\* Wait(0), where f returns an error at the index bad, if that is in the range.
RangeAdd(t) ==
  /\ At(t, "main", "r_start")
  /\ stack' = [stack EXCEPT ![t] =
       Append(SetTop(@, [Top(t) EXCEPT !.pc = "r_added"]),
              AddRangeJobFrame(t, Top(t).lo, Top(t).hi, 0, Top(t).bad))]
  /\ UNCHANGED <<threads, bufsize, closed, channel, cnt, cntmtx, wgm, latch, err, jobs, epoch>>

RangeWait(t) ==
  /\ At(t, "main", "r_added")
  /\ stack' = [stack EXCEPT ![t] =
       Append(SetTop(@, [Top(t) EXCEPT !.pc = "r_end"]), WaitFrame(t, 0))]
  /\ UNCHANGED <<threads, bufsize, closed, channel, cnt, cntmtx, wgm, latch, err, jobs, epoch>>

InitRange ==
  /\ \E n \in 1 .. MaxThreads, b \in 1 .. MaxBuf : InitPool(n, b)
  /\ \E lo \in 0 .. MaxIndex, hi \in 0 .. MaxIndex, bad \in -1 .. MaxIndex - 1 :
       stack = [Start(threads, "r_start") EXCEPT
                  ![0] = << [@[1] EXCEPT !.lo = lo, !.hi = hi, !.bad = bad] >>]

NextRange ==
  \E t \in Threads :
    \/ PoolStep(t)
    \/ AddJobDegenerate(t)
    \/ AddRangeJobLoop(t)
    \/ ChunkRun(t)
    \/ RangeAdd(t)
    \/ RangeWait(t)

SpecRange == InitRange /\ [][NextRange]_vars

\* ------------------------------------------- client code: nested job groups
\* The pattern of README example 4 and TestTest4: the main program and every
\* closure take a new job group, add jobs to it and wait for it, any number of
\* times; a closure then returns nil or an error.  Every closure is of this
\* kind, so the nesting is as deep as the number of jobs allows.
InOwn(t, pc) == Depth(t) > 0 /\ Top(t).op \in {"main", "job"} /\ Top(t).pc = pc

\* the NewJobGroup calls under way
Allocating == {t \in Threads : At(t, "NewJobGroup", "njg")}

OwnNewJobGroup(t) ==
  /\ InOwn(t, "c_idle")
  /\ cnt + Cardinality(Allocating) <= MaxGroup
  /\ Len(jobs) < MaxJobs
  /\ stack' = [stack EXCEPT ![t] =
       Append(SetTop(@, [Top(t) EXCEPT !.pc = "c_new"]), NewJobGroupFrame(t))]
  /\ UNCHANGED <<threads, bufsize, closed, channel, cnt, cntmtx, wgm, latch, err, jobs, epoch>>

OwnAddJob(t) ==
  /\ InOwn(t, "c_fill")
  /\ Top(t).g \in GroupIds
  /\ Len(jobs) < MaxJobs
  /\ jobs' = Append(jobs, NewJob(Top(t).g, "c_idle", 0, 0, -1))
  /\ stack' = [stack EXCEPT ![t] = Append(@, AddJobFrame(t, Top(t).g))]
  /\ UNCHANGED <<threads, bufsize, closed, channel, cnt, cntmtx, wgm, latch, err, epoch>>

OwnWait(t) ==
  /\ InOwn(t, "c_fill")
  /\ Top(t).g \in GroupIds
  /\ stack' = [stack EXCEPT ![t] =
       Append(SetTop(@, [Top(t) EXCEPT !.pc = "c_idle", !.g = 0]), WaitFrame(t, Top(t).g))]
  /\ UNCHANGED <<threads, bufsize, closed, channel, cnt, cntmtx, wgm, latch, err, jobs, epoch>>

OwnReturn(t, fail) ==
  /\ At(t, "job", "c_idle")
  /\ JobReturns(t, IF fail THEN Top(t).j ELSE Nil)
  /\ UNCHANGED <<threads, bufsize, closed, channel, cnt, cntmtx, wgm, err, epoch>>

InitNested ==
  /\ \E n \in 1 .. MaxThreads, b \in 1 .. MaxBuf : InitPool(n, b)
  /\ stack = Start(threads, "c_idle")

\* the steps of thread t
StepNested(t) ==
  \/ PoolStep(t)
  \/ AddJobDegenerate(t)
  \/ NewJobGroupStep(t)
  \/ OwnNewJobGroup(t)
  \/ OwnAddJob(t)
  \/ OwnWait(t)
  \/ \E fail \in BOOLEAN : OwnReturn(t, fail)

NextNested == \E t \in Threads : StepNested(t)

\* Every thread is an OS thread (a goroutine): one that can go on does.
SpecNested == InitNested /\ [][NextNested]_vars /\ \A t \in Threads : WF_vars(StepNested(t))

\* ------------------------------- client code: job group ids of both kinds
\* The nested client, whose closures and main program also add jobs to job
\* groups with ids of their own choice (as TestTest1 and TestTest4 do), so
\* that NewJobGroup finds ids in use.  An id beyond MaxGroup is not used.
UserAddJob(t, g) ==
  /\ InOwn(t, "c_idle")
  /\ Len(jobs) < MaxJobs
  /\ jobs' = Append(jobs, NewJob(g, "c_idle", 0, 0, -1))
  /\ stack' = [stack EXCEPT ![t] = Append(@, AddJobFrame(t, g))]
  /\ UNCHANGED <<threads, bufsize, closed, channel, cnt, cntmtx, wgm, latch, err, epoch>>

OwnDrop(t) ==
  /\ InOwn(t, "c_fill")
  /\ Top(t).g \notin GroupIds
  /\ stack' = [stack EXCEPT ![t] = SetTop(@, [Top(t) EXCEPT !.pc = "c_idle", !.g = 0])]
  /\ UNCHANGED <<threads, bufsize, closed, channel, cnt, cntmtx, wgm, latch, err, jobs, epoch>>

NextGroups ==
  \E t \in Threads :
    \/ StepNested(t)
    \/ \E g \in GroupIds : UserAddJob(t, g)
    \/ OwnDrop(t)

SpecGroups == InitNested /\ [][NextGroups]_vars

\* ------------------------------------------------------------------- Job
\* ThreadPool.Job, lines 725-734, called with the handle of the caller for the
\* closure jobs[j]; line 726: g := t.NewJobGroup()
JobCall(t, j) ==
  << [Frame("Job", "jb_new") EXCEPT !.tid = Handle(t), !.j = j], NewJobGroupFrame(t) >>

\* line 727: t.AddJob(g, f)
JobAddJob(t) ==
  /\ At(t, "Job", "jb_add")
  /\ Top(t).g \in GroupIds
  /\ jobs' = [jobs EXCEPT ![Top(t).j] = NewJob(Top(t).g, "c_idle", 0, 0, -1)]
  /\ stack' = [stack EXCEPT ![t] =
       Append(SetTop(@, [Top(t) EXCEPT !.pc = "jb_added"]),
              [AddJobFrame(t, Top(t).g) EXCEPT !.j = Top(t).j])]
  /\ UNCHANGED <<threads, bufsize, closed, channel, cnt, cntmtx, wgm, latch, err, epoch>>

\* line 730: t.Wait(g), after AddJob has returned nil
JobWait(t) ==
  /\ At(t, "Job", "jb_wait")
  /\ stack' = [stack EXCEPT ![t] =
       Append(SetTop(@, [Top(t) EXCEPT !.pc = "jb_waited"]), WaitFrame(t, Top(t).g))]
  /\ UNCHANGED <<threads, bufsize, closed, channel, cnt, cntmtx, wgm, latch, err, jobs, epoch>>

\* lines 728, 731, 733: Job returns the error of AddJob, else that of Wait
JobReturn(t) ==
  /\ At(t, "Job", "jb_ret")
  /\ stack' = [stack EXCEPT ![t] = Ret(@, Top(t).rv)]
  /\ UNCHANGED <<threads, bufsize, closed, channel, cnt, cntmtx, wgm, latch, err, jobs, epoch>>

\* ------------------------------------------------ client code: single jobs
\* The nested client, whose main program and closures also call Job(f) with a
\* closure f of the same kind.  The closure handed to Job is in jobs from the
\* call on; its job group is known once Job has taken one.
OwnJob(t) ==
  /\ InOwn(t, "c_idle")
  /\ cnt + Cardinality(Allocating) <= MaxGroup
  /\ Len(jobs) < MaxJobs
  /\ jobs' = Append(jobs, NewJob(0, "c_idle", 0, 0, -1))
  /\ stack' = [stack EXCEPT ![t] = @ \o JobCall(t, Len(jobs) + 1)]
  /\ UNCHANGED <<threads, bufsize, closed, channel, cnt, cntmtx, wgm, latch, err, epoch>>

NextJob ==
  \E t \in Threads :
    \/ StepNested(t)
    \/ OwnJob(t)
    \/ JobAddJob(t)
    \/ JobWait(t)
    \/ JobReturn(t)

SpecJob == InitNested /\ [][NextJob]_vars

\* ----------------------------------------------- client code: empty ranges
\* The nested client, whose main program and closures also call
\* AddRangeJob(lo, hi, g, f) with lo >= hi, for any job group g, and look at
\* what it returns.
OwnEmptyRange(t, lo, hi, g) ==
  /\ InOwn(t, "c_idle")
  /\ lo >= hi
  /\ stack' = [stack EXCEPT ![t] =
       Append(SetTop(@, [Top(t) EXCEPT !.pc = "c_range"]),
              AddRangeJobFrame(t, lo, hi, g, -1))]
  /\ UNCHANGED <<threads, bufsize, closed, channel, cnt, cntmtx, wgm, latch, err, jobs, epoch>>

OwnRanged(t) ==
  /\ InOwn(t, "c_ranged")
  /\ stack' = [stack EXCEPT ![t] = SetTop(@, [Top(t) EXCEPT !.pc = "c_idle", !.rv = Nil])]
  /\ UNCHANGED <<threads, bufsize, closed, channel, cnt, cntmtx, wgm, latch, err, jobs, epoch>>

NextEmptyRange ==
  \E t \in Threads :
    \/ StepNested(t)
    \/ \E lo \in 0 .. 1, hi \in 0 .. 1, g \in GroupIds : OwnEmptyRange(t, lo, hi, g)
    \/ AddRangeJobLoop(t)
    \/ OwnRanged(t)

SpecEmptyRange == InitNested /\ [][NextEmptyRange]_vars

\* ----------------------------------------------------------------- Start
\* The goroutines of a pool that is started again: thread 0 is the main
\* thread, the others run worker(i), i the id of the slot; there are
\* MaxOld + 1 slots for every id.
Procs == 0 .. (MaxOld + 1) * (MaxThreads - 1)

IdOf(p) == ((p - 1) % (MaxThreads - 1)) + 1

\* the goroutines that run or have run worker(i) and are not over
Slots(i) == {p \in Procs : p >= 1 /\ IdOf(p) = i /\ stack[p] # << >>}

\* the slot the goroutine of a new worker(i) gets
FreeSlot(i) ==
  CHOOSE p \in Procs :
    /\ p >= 1 /\ IdOf(p) = i /\ stack[p] = << >>
    /\ \A q \in Procs : q >= 1 /\ IdOf(q) = i /\ stack[q] = << >> => p <= q

\* threadPool.Start, lines 468-482, with channelOpen, lines 549-565
StartFrame(t) == [Frame("Start", "sa_check") EXCEPT !.tid = Handle(t)]

\* Lines 469-471: a pool of one thread (a nil *threadPool) returns.  Lines
\* 553-564, the select of channelOpen: a job is received (also from a closed
\* channel that still holds one), or the channel is closed and empty and Start
\* goes on to make a new one, or the channel is open and empty (default) and
\* Start returns (line 473).
StartCheck(t) ==
  /\ At(t, "Start", "sa_check")
  /\ IF threads = 1 \/ (~closed /\ channel = <<>>)
       THEN /\ stack' = [stack EXCEPT ![t] = Ret(@, Nil)]
            /\ UNCHANGED channel
       ELSE IF channel # <<>>
         THEN /\ channel' = Tail(channel)
              /\ stack' = [stack EXCEPT ![t] =
                   SetTop(@, [Top(t) EXCEPT !.pc = "sa_putback", !.j = Head(channel)])]
         ELSE /\ stack' = [stack EXCEPT ![t] = SetTop(@, [Top(t) EXCEPT !.pc = "sa_make"])]
              /\ UNCHANGED channel
  /\ UNCHANGED <<threads, bufsize, closed, cnt, cntmtx, wgm, latch, err, jobs, epoch>>

\* Line 559: t.channel <- job, a send that waits for room in the channel and
\* panics when the channel has been closed; then Start returns (line 473).
StartPutBack(t) ==
  /\ At(t, "Start", "sa_putback")
  /\ IF closed
       THEN /\ stack' = Panic(t)
            /\ UNCHANGED channel
       ELSE /\ Len(channel) < bufsize
            /\ channel' = Append(channel, Top(t).j)
            /\ stack' = [stack EXCEPT ![t] = Ret(@, Nil)]
  /\ UNCHANGED <<threads, bufsize, closed, cnt, cntmtx, wgm, latch, err, jobs, epoch>>

\* Lines 475-481: a new channel is made and worker(i) is started for
\* i = 1 .. threads-1; the workers started before range over the old channel.
StartMake(t) ==
  /\ At(t, "Start", "sa_make")
  /\ \A i \in 1 .. threads - 1 : Cardinality(Slots(i)) <= MaxOld
  /\ channel' = <<>>
  /\ closed' = FALSE
  /\ stack' = [p \in Procs |->
       IF p = t THEN Ret(stack[t], Nil)
       ELSE IF stack[p] # << >>
         THEN IF stack[p][1].op = "worker" THEN [stack[p] EXCEPT ![1].old = TRUE] ELSE stack[p]
       ELSE IF p >= 1 /\ IdOf(p) < threads /\ p = FreeSlot(IdOf(p))
         THEN << [Frame("worker", "wk_recv") EXCEPT !.tid = IdOf(p)] >>
         ELSE << >>]
  /\ UNCHANGED <<threads, bufsize, cnt, cntmtx, wgm, latch, err, jobs, epoch>>

\* --------------------------------------- client code: stopping and starting
\* The main program adds jobs to the job group 0, waits for it and calls Stop
\* and Start, in any order and any number of times; a closure may add a job
\* to the group and returns nil or an error.  A panic ends the program.
LifeAddJob(t) ==
  /\ At(t, "main", "l_idle") \/ At(t, "job", "l_body")
  /\ Len(jobs) < MaxJobs
  /\ jobs' = Append(jobs, NewJob(0, "l_body", 0, 0, -1))
  /\ stack' = [stack EXCEPT ![t] = Append(@, AddJobFrame(t, 0))]
  /\ UNCHANGED <<threads, bufsize, closed, channel, cnt, cntmtx, wgm, latch, err, epoch>>

LifeWait(t) ==
  /\ At(t, "main", "l_idle")
  /\ stack' = [stack EXCEPT ![t] = Append(@, WaitFrame(t, 0))]
  /\ UNCHANGED <<threads, bufsize, closed, channel, cnt, cntmtx, wgm, latch, err, jobs, epoch>>

LifeStop(t) ==
  /\ At(t, "main", "l_idle")
  /\ stack' = [stack EXCEPT ![t] = Append(@, StopFrame(t))]
  /\ UNCHANGED <<threads, bufsize, closed, channel, cnt, cntmtx, wgm, latch, err, jobs, epoch>>

LifeStart(t) ==
  /\ At(t, "main", "l_idle")
  /\ \A i \in 1 .. threads - 1 : Cardinality(Slots(i)) <= MaxOld
  /\ stack' = [stack EXCEPT ![t] = Append(@, StartFrame(t))]
  /\ UNCHANGED <<threads, bufsize, closed, channel, cnt, cntmtx, wgm, latch, err, jobs, epoch>>

LifeReturn(t, fail) ==
  /\ At(t, "job", "l_body")
  /\ JobReturns(t, IF fail THEN Top(t).j ELSE Nil)
  /\ UNCHANGED <<threads, bufsize, closed, channel, cnt, cntmtx, wgm, err, epoch>>

InitLife ==
  /\ \E n \in 1 .. MaxThreads, b \in 1 .. MaxBuf : InitPool(n, b)
  /\ stack = [p \in Procs |->
                IF p \in Threads THEN Start(threads, "l_idle")[p] ELSE << >>]

\* the steps of goroutine t
StepLife(t) ==
  \/ PoolStep(t)
  \/ AddJobDegenerate(t)
  \/ AddJobPanic(t)
  \/ WaitRecvZero(t)
  \/ WorkerExit(t)
  \/ StopCheck(t)
  \/ StopPutBack(t)
  \/ StopClose(t)
  \/ StartCheck(t)
  \/ StartPutBack(t)
  \/ StartMake(t)
  \/ LifeAddJob(t)
  \/ LifeWait(t)
  \/ LifeStop(t)
  \/ LifeStart(t)
  \/ \E fail \in BOOLEAN : LifeReturn(t, fail)

NextLife == \E t \in Procs : StepLife(t)

SpecLife == InitLife /\ [][NextLife]_vars

\* ------------------------------------------------------------------ claims
\* a Wait call of thread t is about to return
Returning(t) == At(t, "Wait", "w_ret")

\* C1 (Drain): on a pool of two or more threads, when Wait(g) returns, every
\* job of g whose AddJob call had returned before Wait(g) was called has
\* finished, whichever threads submitted the jobs.
C1_Drain ==
  \A t \in Threads :
    Returning(t) /\ threads >= 2 =>
      \A j \in Top(t).pre : jobs[j].st = "done"

\* the jobs a returning Wait(g) of thread t had to wait for: those of the
\* present use of g whose AddJob had returned when Wait was called
Awaited(t) == {j \in Top(t).pre : jobs[j].ep = Top(t).ep}

\* C2 (error surfacing): on a pool of two or more threads, if a job submitted
\* to g before Wait(g) was called has returned an error, Wait(g) returns an
\* error.
C2_ErrorSurfaced ==
  \A t \in Threads :
    Returning(t) /\ threads >= 2 /\ (\E j \in Awaited(t) : jobs[j].ret # Nil)
      => Top(t).rv # Nil

\* C3 (origin of the result of Wait): what Wait(g) returns is nil or the error
\* a job of the present use of g returned, never the error of a job of another
\* group or of an earlier, already waited use of the same id.
C3_Origin ==
  \A t \in Threads :
    Returning(t) /\ Top(t).rv # Nil =>
      /\ jobs[Top(t).rv].g = Top(t).g
      /\ jobs[Top(t).rv].ep = Top(t).ep
      /\ jobs[Top(t).rv].ret = Top(t).rv

\* C4 (first error stickiness): once a job group has an error recorded, its
\* slot keeps that error until the slot is dropped; no later error replaces it.
C4_Sticky ==
  [][\A g \in GroupIds : err[g] # Nil => err'[g] \in {err[g], Nil}]_vars

\* thread t is inside a Wait call
InWait(t) == \E i \in 1 .. Depth(t) : stack[t][i].op = "Wait"

\* no thread can take a step
AllBlocked == \A t \in Threads : ~ENABLED StepNested(t)

\* C5 (deadlock freedom of nested waiting): when every closure waits only for
\* job groups it has created and filled itself, every Wait call, at the top
\* level or inside a job, returns in the end, for every number of threads and
\* every buffer size; and in no state are all threads blocked while a job is
\* still in the channel or a latch is above zero.
C5_NestedWaitReturns ==
  /\ \A t \in Threads : InWait(t) ~> ~InWait(t)
  /\ [](AllBlocked =>
          /\ channel = <<>>
          /\ \A k \in 1 .. Len(latch) : latch[k] = 0
          /\ \A t \in Threads : ~InWait(t))

\* a Wait called by a job (a nested Wait) for a group with jobs returns
C5_Witness ==
  \E t \in Threads :
    /\ Returning(t) /\ Top(t).wg # NoWG
    /\ \E i \in 1 .. Depth(t) : stack[t][i].op = "job"
    /\ Top(t).pre # {}

\* thread t is inside an AddJob call that is not itself waiting in a Wait
InAddJob(t) ==
  \E i \in 1 .. Depth(t) :
    /\ stack[t][i].op = "AddJob"
    /\ \A k \in i + 1 .. Depth(t) : stack[t][k].op # "Wait"

\* C6 (AddJob never waits for queue space): on a pool of two or more threads
\* a thread inside AddJob can always take its next step, whatever the other
\* threads do, also when the channel holds bufsize jobs; its step from the
\* select with a full channel leaves the channel as it is and starts the
\* submitted job on the same thread, with the handle AddJob was called with.
C6_AddJobNeverBlocks ==
  /\ [](\A t \in Threads : threads >= 2 /\ InAddJob(t) => ENABLED Step(t))
  /\ [][\A t \in Threads :
          /\ threads >= 2
          /\ At(t, "AddJob", "aj_select")
          /\ Len(channel) >= bufsize
          /\ stack'[t] # stack[t]
          => /\ channel' = channel
             /\ Len(stack'[t]) = Depth(t) + 1
             /\ stack'[t][Depth(t)].pc = "aj_run"
             /\ stack'[t][Depth(t) + 1].op = "job"
             /\ stack'[t][Depth(t) + 1].j = Top(t).j
             /\ stack'[t][Depth(t) + 1].tid = Top(t).tid
             /\ jobs'[Top(t).j].st = "running"]_vars

\* a job that was run inline on a full channel has returned to its AddJob
C6_Witness ==
  \E t \in Threads :
    /\ threads >= 2
    /\ Depth(t) > 0 /\ Top(t).op = "AddJob" /\ Top(t).pc \in {"aj_ret", "aj_seterr"}
    /\ Len(channel) = bufsize

\* the number of times job j stands in the channel
InChannel(j) == Cardinality({k \in 1 .. Len(channel) : channel[k] = j})

RangeAdded == stack[0][1].pc = "r_end"

\* the main program is back from AddRangeJob and from Wait
RangeDone == At(0, "main", "r_end")

\* the number of calls f(i) made so far
Calls(i) ==
  Cardinality({p \in (1 .. Len(jobs)) \X (1 .. MaxIndex + 1) :
                 p[2] <= Len(jobs[p[1]].calls) /\ jobs[p[1]].calls[p[2]] = i})

\* C8 (range partitioning): for lo < hi and an f that returns no error,
\* AddRangeJob(lo, hi, g, f) followed by Wait(g) calls f once for every index
\* of [lo, hi) and for no other; the chunks submitted are not empty, follow
\* one another without gap or overlap, start at lo and end at hi.
C8_RangePartition ==
  LET m == stack[0][1] IN
    RangeDone /\ m.lo < m.hi /\ m.bad \notin m.lo .. m.hi - 1 =>
      /\ \A i \in -1 .. MaxIndex + 1 :
           Calls(i) = IF m.lo <= i /\ i < m.hi THEN 1 ELSE 0
      /\ Len(jobs) >= 1
      /\ jobs[1].lo = m.lo
      /\ jobs[Len(jobs)].hi = m.hi
      /\ \A k \in 1 .. Len(jobs) : jobs[k].lo < jobs[k].hi
      /\ \A k \in 1 .. Len(jobs) - 1 : jobs[k].hi = jobs[k + 1].lo

\* a range whose last chunk had to be cut at hi has been run by two threads
\* or more
C8_Witness ==
  LET m == stack[0][1] IN
    /\ RangeDone /\ threads >= 2 /\ m.bad = -1
    /\ m.lo < m.hi
    /\ jobs[Len(jobs)].hi - jobs[Len(jobs)].lo < jobs[1].hi - jobs[1].lo

\* C9 (chunk count): for lo < hi, AddRangeJob(lo, hi, g, f) submits
\* m = min(N, hi-lo) jobs, each over (hi-lo) div m indices but the last, which
\* takes the remainder in addition.
C9_ChunkCount ==
  LET fr == stack[0][1]
      m  == Min(threads, fr.hi - fr.lo)
  IN
    RangeAdded /\ fr.lo < fr.hi =>
      /\ Len(jobs) = m
      /\ \A k \in 1 .. Len(jobs) :
           jobs[k].hi - jobs[k].lo =
             ((fr.hi - fr.lo) \div m) + IF k = m THEN (fr.hi - fr.lo) % m ELSE 0

\* C10 (thread id range): every call of a closure, by a worker, by a thread
\* inside Wait, inline in AddJob or on a pool of one thread, is given a handle
\* whose GetThreadId() is in 0 .. N-1.
C10_ThreadIdRange ==
  \A t \in Threads : \A i \in 1 .. Depth(t) :
    stack[t][i].op = "job" =>
      GetThreadId(stack[t][i].tid) \in 0 .. NumberOfThreads - 1

\* a closure runs with the largest thread id, inside a Wait called by a job
\* on the last worker
C10_Witness ==
  \E t \in Threads : \E i \in 2 .. Depth(t) :
    /\ t = threads - 1 /\ t >= 1
    /\ stack[t][i].op = "job" /\ stack[t][i - 1].op = "Wait"
    /\ GetThreadId(stack[t][i].tid) = threads - 1

\* thread t runs a closure at depth i that its Wait call below has dequeued
RunsInWait(t, i) ==
  i \in 2 .. Depth(t) /\ stack[t][i].op = "job" /\ stack[t][i - 1].op = "Wait"

\* C11 as stated (thread id inside Wait): every job a thread dequeues and runs
\* inside Wait is invoked with thread id 0, whichever thread called Wait.
C11_WaitThreadZero ==
  \A t \in Threads : \A i \in 1 .. Depth(t) :
    RunsInWait(t, i) => GetThreadId(stack[t][i].tid) = 0

\* C11 as amended: every job a thread dequeues and runs inside Wait is invoked
\* with the handle Wait was called with, whose thread id is that of the
\* calling thread: 0 on the main thread, i inside a job on worker i.
C11_WaitCallerId ==
  \A t \in Threads : \A i \in 1 .. Depth(t) :
    RunsInWait(t, i) =>
      /\ stack[t][i].tid = stack[t][i - 1].tid
      /\ stack[t][i - 1].tid = stack[t][i - 2].tid
      /\ GetThreadId(stack[t][i].tid) = t

\* the main thread and a job on a worker both run a dequeued job inside Wait
C11_Witness ==
  /\ \E i \in 1 .. Depth(0) : RunsInWait(0, i) /\ stack[0][i].tid = 0
  /\ \E t \in Threads : \E i \in 1 .. Depth(t) :
        t >= 1 /\ RunsInWait(t, i) /\ stack[t][i].tid = t

\* the closure of job j runs on thread t, called by the AddJob that took it
RunsInAddJob(t, j) ==
  \E i \in 2 .. Depth(t) :
    /\ stack[t][i].op = "job" /\ stack[t][i].j = j
    /\ stack[t][i - 1].op = "AddJob" /\ stack[t][i - 1].j = j

\* C12 (degenerate AddJob): on a pool of one thread AddJob(g, f) runs f on the
\* caller before it returns, with thread id 0 and an error probe that gives
\* nil, also after a job of g has failed; it returns the error f returned,
\* creates no registry entry and puts nothing in the channel.
C12_DegenerateAddJob ==
  threads = 1 =>
    /\ channel = <<>> /\ latch = <<>>
    /\ \A g \in GroupIds : wgm[g] = NoWG /\ err[g] = Nil
    /\ \A j \in 1 .. Len(jobs) :
         /\ jobs[j].st = "running" => RunsInAddJob(0, j)
         /\ jobs[j].added =>
              jobs[j].st = "done" /\ jobs[j].runs = 1 /\ jobs[j].res = jobs[j].ret
         /\ jobs[j].st # "queued" /\ jobs[j].wg = NoWG /\ ~jobs[j].inl
    /\ \A i \in 1 .. Depth(0) :
         stack[0][i].op = "job" =>
           /\ GetThreadId(stack[0][i].tid) = 0
           /\ Probe(stack[0][i]) = Nil /\ stack[0][i].rv = Nil

\* on a pool of one thread a job of g has failed, AddJob has returned its
\* error, and a later job of g is running
C12_Witness ==
  /\ threads = 1
  /\ \E j, k \in 1 .. Len(jobs) :
       /\ j < k /\ jobs[j].g = jobs[k].g
       /\ jobs[j].added /\ jobs[j].res # Nil
       /\ jobs[k].st = "running"

\* C13 (degenerate Wait): on a pool of one thread Wait(g) returns nil at once,
\* for every g, also after jobs of g have returned errors and also when a
\* running job calls it: a Wait call is at its entry or at its return of nil,
\* and nothing of the pool has changed.
C13_DegenerateWait ==
  threads = 1 =>
    /\ \A i \in 1 .. Depth(0) :
         stack[0][i].op = "Wait" =>
           /\ stack[0][i].pc \in {"w_enter", "w_ret"}
           /\ stack[0][i].rv = Nil /\ stack[0][i].wg = NoWG
           /\ i = Depth(0)
    /\ channel = <<>> /\ latch = <<>>
    /\ \A g \in GroupIds : wgm[g] = NoWG /\ err[g] = Nil /\ epoch[g] = 0

\* on a pool of one thread a job returns from Wait(g) after a job of g failed
C13_Witness ==
  /\ threads = 1 /\ Returning(0)
  /\ \E i \in 1 .. Depth(0) : stack[0][i].op = "job"
  /\ \E j \in 1 .. Len(jobs) : jobs[j].g = Top(0).g /\ jobs[j].ret # Nil

\* thread t is in a Wait call that found no waitGroup of its job group
Unknown(t) ==
  /\ Depth(t) > 0 /\ Top(t).op = "Wait" /\ threads >= 2
  /\ \/ Top(t).pc = "w_enter" /\ wgm[Top(t).g] = NoWG
     \/ Top(t).pc # "w_enter" /\ Top(t).wg = NoWG

\* C14 (Wait on an unknown group): on a pool of two or more threads Wait(g)
\* for a g without registry entry returns nil; its steps take no job from the
\* channel, run none, and leave the channel, the latches, the error slots,
\* the registry and the id counter as they are.
C14_UnknownGroup ==
  [][\A t \in Threads :
       Unknown(t) /\ stack'[t] # stack[t] =>
         /\ UNCHANGED <<channel, latch, err, wgm, cnt, cntmtx, jobs, epoch>>
         /\ Top(t).pc = "w_enter" =>
              stack'[t] = SetTop(stack[t], [Top(t) EXCEPT !.pc = "w_ret", !.rv = Nil])
         /\ Top(t).pc # "w_enter" =>
              /\ Top(t).pc = "w_ret" /\ Top(t).rv = Nil
              /\ stack'[t] = Ret(stack[t], Nil)]_vars

\* Wait returns for a job group without registry entry while a job is in the
\* channel and an error is recorded
C14_Witness ==
  \E t \in Threads :
    /\ Unknown(t) /\ Returning(t)
    /\ channel # <<>>
    /\ \E g \in GroupIds : err[g] # Nil

\* thread t holds, at depth i, a job group id it got from NewJobGroup
Holds(t, i) ==
  i \in 1 .. Depth(t) /\ stack[t][i].op \in {"main", "job"} /\ stack[t][i].pc = "c_fill"

\* no two callers hold the same id from NewJobGroup
DistinctIds ==
  \A t, u \in Threads : \A i \in 1 .. Depth(t) : \A k \in 1 .. Depth(u) :
    Holds(t, i) /\ Holds(u, k) /\ <<t, i>> # <<u, k>> => stack[t][i].g # stack[u][k].g

\* C15 as stated (fresh group ids): any two calls of NewJobGroup on the same
\* pool return different ids.
C15_FreshIds == DistinctIds

\* thread t returns from NewJobGroup in this step
Allocated(t) ==
  /\ At(t, "NewJobGroup", "njg")
  /\ Len(stack'[t]) = Depth(t) - 1

\* C15 as amended: on a pool of two or more threads any two calls of
\* NewJobGroup return different ids (each call returns the counter and leaves
\* it above the id returned, and the counter never goes down), and an id has
\* no registry entry when it is returned, ids of live groups being skipped;
\* also for concurrent calls and for ids no job was added to.
C15_FreshIdsRunning ==
  /\ [](threads >= 2 => DistinctIds)
  /\ [][cnt' >= cnt]_vars
  /\ [][\A t \in Threads :
          threads >= 2 /\ Allocated(t) =>
            LET id == stack'[t][Depth(t) - 1].g IN
              /\ stack'[t][Depth(t) - 1].pc = "c_fill"
              /\ id >= cnt /\ cnt' > id
              /\ ~Taken(id) /\ (id \in GroupIds => wgm'[id] = NoWG)
              /\ \A u \in Threads : \A k \in 1 .. Depth(u) :
                   Holds(u, k) => stack[u][k].g < id]_vars

\* the main program holds id 1 from NewJobGroup, which has skipped id 0, the
\* id of the queued job of a group of the client's own choice
C15_Witness ==
  /\ threads >= 2
  /\ InOwn(0, "c_fill") /\ Top(0).g = 1 /\ cnt = 2
  /\ Taken(0)
  /\ Len(jobs) = 1 /\ jobs[1].g = 0 /\ jobs[1].st = "queued"

\* the background workers have all left their loop
WorkersGone == \A t \in Threads : t >= 1 => stack[t] = << >>

\* C16 (Stop drains and terminates): after Stop() on a pool of two or more
\* threads every job that was in the channel when Stop was called is run, once,
\* and every background worker leaves its loop in the end; a worker that has
\* left does not come back, and none leaves with a job still in the channel.
C16_StopDrains ==
  /\ closed ~> (WorkersGone /\ \A j \in 1 .. Len(jobs) :
                   jobs[j].late => jobs[j].st = "done" /\ jobs[j].runs = 1)
  /\ [](\A j \in 1 .. Len(jobs) : jobs[j].runs <= 1)
  /\ [](\A t \in Threads :
          t >= 1 /\ t < threads /\ stack[t] = << >> => closed /\ channel = <<>>)
  /\ [][\A t \in Threads : stack[t] = << >> => stack'[t] = << >>]_vars

\* the workers are gone after two jobs that were in the channel when Stop was
\* called have been run
C16_Witness ==
  /\ threads >= 2 /\ closed /\ WorkersGone
  /\ \E j, k \in 1 .. Len(jobs) :
       j # k /\ jobs[j].late /\ jobs[k].late /\ jobs[j].st = "done" /\ jobs[k].st = "done"

\* some thread has panicked
Panicked == \E t \in Threads : \E i \in 1 .. Depth(t) : stack[t][i].pc = "panic"

\* the arguments New was called with are valid
ArgsValid == NewValid(stack[0][1].n, stack[0][1].i)

\* C17 (constructor preconditions): New(n, b) with n < 1 or b < 1 panics at
\* once and has made no channel and started no worker; with n >= 1 and b >= 1
\* it returns a pool of n threads and capacity b, empty and open, whose
\* workers 1 .. n-1 wait for jobs, and nothing panics afterwards.
C17_NewPreconditions ==
  /\ [](~ArgsValid =>
          /\ stack[0][1].pc \in {"n_start", "panic"}
          /\ threads = 0 /\ bufsize = 0 /\ channel = <<>> /\ jobs = <<>>
          /\ \A t \in Threads : t >= 1 => stack[t] = << >>)
  /\ [](ArgsValid =>
          /\ ~Panicked
          /\ stack[0][1].pc # "n_start" =>
               threads = stack[0][1].n /\ bufsize = stack[0][1].i)
  /\ [][stack[0][1].pc = "n_start" =>
          IF ArgsValid
            THEN /\ threads' = stack[0][1].n /\ bufsize' = stack[0][1].i
                 /\ channel' = <<>> /\ ~closed' /\ latch' = <<>> /\ cnt' = 0
                 /\ \A g \in GroupIds : wgm'[g] = NoWG /\ err'[g] = Nil
                 /\ \A t \in Threads :
                      /\ t >= threads' => stack'[t] = << >>
                      /\ t >= 1 /\ t < threads' =>
                           /\ Len(stack'[t]) = 1
                           /\ stack'[t][1].op = "worker" /\ stack'[t][1].pc = "wk_recv"
                      /\ t = 0 => Len(stack'[t]) = 1 /\ stack'[t][1].pc = "s_fill"
            ELSE stack'[0][1].pc = "panic" /\ Len(stack'[0]) = 1]_vars

\* New has panicked for a bufsize below 1 with a valid number of threads
C17_Witness ==
  /\ At(0, "main", "panic")
  /\ stack[0][1].n >= 1 /\ stack[0][1].i < 1

\* C18 (AddJob's return value): on a pool of two or more threads AddJob
\* returns nil, also when the channel was full and the job it ran inline
\* returned an error; that error is in the error slot of the group when
\* AddJob returns, and an inline error that was the first of its group is
\* what the next Wait(g) returns.
C18_InlineError ==
  /\ \A j \in 1 .. Len(jobs) :
       threads >= 2 /\ jobs[j].added => jobs[j].res = Nil
  /\ \A t \in Threads :
       threads >= 2 /\ At(t, "AddJob", "aj_seterr") => Top(t).rv = jobs[Top(t).j].ret
  /\ \A t \in Threads :
       threads >= 2 /\ Returning(t) =>
         \A j \in Awaited(t) : jobs[j].first => Top(t).rv = j

\* a Wait(g) has dropped the job group g and no Wait(g) is under way: the last
\* Wait(g) has returned
Waited(g) ==
  /\ epoch[g] >= 1
  /\ \A t \in Threads : \A i \in 1 .. Depth(t) :
       ~(stack[t][i].op = "Wait" /\ stack[t][i].g = g)

\* an AddJob for the job group g has been called since the last drop of g
AddedSince(g) == \E j \in 1 .. Len(jobs) : jobs[j].g = g /\ jobs[j].ep = epoch[g]

\* C19 (registry disjointness): on a pool of two or more threads, once
\* Wait(g) has returned and until the next AddJob(g), g has no waitGroup and
\* no error in the registry and no job of g is queued or running.
C19_Disjoint ==
  \A g \in GroupIds :
    threads >= 2 /\ Waited(g) /\ ~AddedSince(g) =>
      /\ wgm[g] = NoWG
      /\ err[g] = Nil
      /\ \A j \in 1 .. Len(jobs) : jobs[j].g = g => jobs[j].st = "done"

\* the closure on top of thread t calls its probe in this step and gets nil
\* after it had got an error
ProbeFalls(t) ==
  /\ At(t, "job", "body") /\ Top(t).rv # Nil
  /\ Len(stack'[t]) = Depth(t)
  /\ stack'[t][Depth(t)].rv = Nil

\* a Wait for the group of job j is under way that was called after the AddJob
\* of j had returned
WaitedFor(j) ==
  \E w \in Threads : \E i \in 1 .. Depth(w) :
    /\ stack[w][i].op = "Wait" /\ stack[w][i].g = jobs[j].g
    /\ j \in stack[w][i].pre

\* C20 (monotone error probe): once the probe of a job of g has returned an
\* error it returns an error on every later call, until Wait(g) has returned
\* (stated for the calls of one job that Wait(g) is waiting for); and the
\* probe of a job of g gives no error of a job of another group.
C20_MonotoneProbe ==
  /\ [][\A t \in Threads : ProbeFalls(t) => ~WaitedFor(Top(t).j)]_vars
  /\ [](\A t \in Threads : \A i \in 1 .. Depth(t) :
          stack[t][i].op = "job" /\ stack[t][i].pc = "body" /\ stack[t][i].rv # Nil =>
            jobs[stack[t][i].rv].g = jobs[stack[t][i].j].g)

\* C21 (Job): Job(f) returns only after f has finished, and it returns nil if
\* and only if f returned nil, for every number of threads and buffer size.
C21_JobResult ==
  \A t \in Threads :
    At(t, "Job", "jb_ret") =>
      /\ jobs[Top(t).j].st = "done" /\ jobs[Top(t).j].runs = 1
      /\ Top(t).rv = Nil <=> jobs[Top(t).j].ret = Nil

\* the jobs of the job group g that an AddJob has counted on a latch and whose
\* closure has not returned yet
Live(g) ==
  {j \in 1 .. Len(jobs) : jobs[j].g = g /\ jobs[j].wg # NoWG /\ jobs[j].st # "done"}

\* C22 (latch safety): for every job group with an entry in the registry the
\* counter of its latch is the number of AddJob calls of the group that have
\* incremented a latch minus the number of jobs of the group whose closure has
\* returned, and no counter is ever negative.
C22_LatchSafety ==
  /\ \A g \in GroupIds : wgm[g] # NoWG => Value(wgm[g]) = Cardinality(Live(g))
  /\ \A k \in 1 .. Len(latch) : latch[k] >= 0

\* C23 (one latch per live group): every AddJob(g) call increments the latch
\* that the registry holds under g, also when two threads call AddJob(g)
\* concurrently for a g without entry; no job that has not returned is counted
\* on a latch that the registry does not hold under its group.
C23_OneLatch ==
  \A g \in GroupIds : \A j \in Live(g) : jobs[j].wg = wgm[g]

\* thread t is about to record the error of the job it has run
Recording(t) ==
  \/ At(t, "worker", "wk_seterr")
  \/ At(t, "Wait", "w_seterr")
  \/ At(t, "AddJob", "aj_seterr")

\* the closure on top of thread t returns in this step
JobEnds(t) ==
  /\ Depth(t) > 1 /\ Top(t).op = "job"
  /\ Len(stack'[t]) = Depth(t) - 1

\* the closure on top of thread t calls its error probe in this step
Probes(t) ==
  /\ At(t, "job", "body")
  /\ Len(stack'[t]) = Depth(t)
  /\ stack'[t] # stack[t]

\* C24 (error attribution by job group): whoever runs a job of group g, a
\* worker, a thread inside Wait(h) or the submitter inline, the error the job
\* returns goes to that executor for recording and is written to the slot of g
\* and to no other slot; a slot holds nothing but an error of a job of its
\* group; and the probe of the job reads the slot of g.
C24_Attribution ==
  /\ [](\A g \in GroupIds : err[g] # Nil => jobs[err[g]].g = g /\ jobs[err[g]].ret = err[g])
  /\ [](\A t \in Threads : Recording(t) =>
          Top(t).rv # Nil /\ Top(t).rv = jobs[Top(t).j].ret)
  /\ [][\A t \in Threads :
          threads >= 2 /\ JobEnds(t) /\ jobs'[Top(t).j].ret # Nil =>
            /\ stack'[t][Depth(t) - 1].pc \in {"wk_seterr", "w_seterr", "aj_seterr"}
            /\ stack'[t][Depth(t) - 1].j = Top(t).j]_vars
  /\ [][\A t \in Threads :
          Recording(t) /\ stack'[t] # stack[t] =>
            err' = [err EXCEPT ![jobs[Top(t).j].g] = jobs[Top(t).j].ret]]_vars
  /\ [][\A t \in Threads :
          Probes(t) => stack'[t][Depth(t)].rv = err[jobs[Top(t).j].g]]_vars

\* a thread inside Wait(h) is about to record the error of a job of another
\* group that it has run, the error of a job that was run inline is in the
\* slot of its group, and a running job has read an error with its probe
C24_Witness ==
  /\ \E t \in Threads : At(t, "Wait", "w_seterr") /\ jobs[Top(t).j].g # Top(t).g
  /\ \E k \in 1 .. Len(jobs) : jobs[k].inl /\ err[jobs[k].g] = k
  /\ \E t \in Threads : \E i \in 1 .. Depth(t) :
       stack[t][i].op = "job" /\ stack[t][i].rv # Nil

\* the thread ids the closures running on thread t observe
ObservedIds(t) ==
  {GetThreadId(stack[t][i].tid) : i \in {k \in 1 .. Depth(t) : stack[t][k].op = "job"}}

\* C25 (thread id exclusivity): when every closure calls the pool through the
\* handle it was given, no two different threads run closures that observe
\* the same GetThreadId() at the same time: the closures on thread t observe
\* the id t.
C25_ThreadIdExclusive ==
  /\ \A t, u \in Threads : t # u => ObservedIds(t) \cap ObservedIds(u) = {}
  /\ \A t \in Threads : ObservedIds(t) \subseteq {t}

\* the main thread runs a closure inside Wait while a closure on a worker runs
\* another closure inline, inside AddJob
C25_Witness ==
  /\ \E i \in 1 .. Depth(0) : RunsInWait(0, i)
  /\ \E t \in Threads : \E i \in 3 .. Depth(t) :
       /\ t >= 1
       /\ stack[t][i].op = "job" /\ stack[t][i - 1].op = "AddJob"
       /\ stack[t][i - 2].op = "job"

\* the background workers that are in their loop
Workers == {t \in Threads : stack[t] # << >> /\ stack[t][1].op = "worker"}

\* C26 (worker set): New(n, b) with n >= 2 starts n-1 background workers,
\* one for each thread id of 1 .. n-1, and no other worker is ever started;
\* New(1, b) starts no worker and makes no channel: nothing is ever buffered
\* or closed.
C26_WorkerSet ==
  /\ [][stack[0][1].pc = "n_start" /\ ArgsValid =>
          /\ {t \in Threads : stack'[t] # << >> /\ stack'[t][1].op = "worker"}
                = 1 .. stack[0][1].n - 1
          /\ \A t \in 1 .. stack[0][1].n - 1 :
               /\ Len(stack'[t]) = 1
               /\ stack'[t][1].pc = "wk_recv" /\ stack'[t][1].tid = t]_vars
  /\ [](\A t \in Workers : stack[t][1].tid = t /\ t \in 1 .. threads - 1)
  /\ [](stack[0][1].pc # "n_start" /\ ArgsValid /\ ~closed => Workers = 1 .. threads - 1)
  /\ [](threads = 1 => Workers = {} /\ channel = <<>> /\ ~closed)

\* New(n, b) has returned a pool of the largest number of threads, all of
\* whose workers wait for their first job
C26_Witness ==
  /\ At(0, "main", "s_fill") /\ threads = MaxThreads /\ jobs = <<>>
  /\ \A t \in 1 .. threads - 1 : At(t, "worker", "wk_recv") /\ Top(t).tid = t

\* thread t runs, at depth i, a closure that its AddJob call below has run
\* inline on a full channel
RunsInline(t, i) ==
  /\ i \in 3 .. Depth(t)
  /\ stack[t][i].op = "job" /\ stack[t][i - 1].op = "AddJob"
  /\ stack[t][i - 1].pc = "aj_run" /\ jobs[stack[t][i].j].inl

\* C27 (thread id of the inline fallback): a job that AddJob runs inline on a
\* full channel observes the thread id of the submitter, which called AddJob
\* through its own handle: 0 when the main program submits, i when a job
\* running on worker i submits.
C27_InlineThreadId ==
  \A t \in Threads : \A i \in 1 .. Depth(t) :
    threads >= 2 /\ RunsInline(t, i) =>
      /\ stack[t][i].tid = stack[t][i - 2].tid
      /\ GetThreadId(stack[t][i].tid) = IF stack[t][1].op = "main" THEN 0 ELSE stack[t][1].tid
      /\ stack[t][1].op = "worker" => stack[t][1].tid = t /\ t >= 1

\* a job running on a worker has submitted a job on a full channel, which now
\* runs inline on that worker with the thread id of the worker
C27_Witness ==
  \E t \in Threads : \E i \in 1 .. Depth(t) :
    /\ t >= 1 /\ RunsInline(t, i)
    /\ stack[t][i - 2].op = "job" /\ Len(channel) = bufsize
    /\ GetThreadId(stack[t][i].tid) = t

\* the indices a .. b in increasing order
Ascending(a, b) == [k \in 1 .. b - a + 1 |-> a + k - 1]

\* f fails inside the chunk of job k
FailsIn(k) == jobs[k].bad \in jobs[k].lo .. jobs[k].hi - 1

\* C28 (chunk abort on first error): a chunk job of AddRangeJob calls f for
\* the indices of its chunk in increasing order; when f(i) returns an error
\* the chunk returns that error and calls f for no larger index.  On a pool
\* of one thread AddRangeJob returns that error and submits no further chunk;
\* on a larger pool it returns nil.
C28_ChunkAbort ==
  /\ \A k \in 1 .. Len(jobs) :
       IF jobs[k].st = "done"
         THEN /\ jobs[k].calls =
                   Ascending(jobs[k].lo, IF FailsIn(k) THEN jobs[k].bad ELSE jobs[k].hi - 1)
              /\ jobs[k].ret = IF FailsIn(k) THEN k ELSE Nil
         ELSE jobs[k].calls = << >>
  /\ At(0, "main", "r_added") /\ stack[0][1].lo < stack[0][1].hi =>
       IF threads = 1
         THEN /\ Len(jobs) = 1 /\ jobs[1].st = "done"
              /\ stack[0][1].rv = jobs[1].ret
         ELSE stack[0][1].rv = Nil

\* on a pool of one thread AddRangeJob has returned the error of f, which
\* failed neither at the first nor at the last index of the chunk
C28_Witness ==
  /\ threads = 1 /\ At(0, "main", "r_added")
  /\ stack[0][1].rv # Nil /\ stack[0][1].rv = jobs[1].ret
  /\ jobs[1].lo < jobs[1].bad /\ jobs[1].bad < jobs[1].hi - 1
  /\ Len(jobs[1].calls) < jobs[1].hi - jobs[1].lo

\* thread t is in a call AddRangeJob(lo, hi, g, f) with lo >= hi
InEmptyRange(t) ==
  /\ Depth(t) > 0 /\ Top(t).op = "AddRangeJob"
  /\ Top(t).lo >= Top(t).hi

\* C29 (the empty range is a no-op): AddRangeJob(lo, hi, g, f) with lo >= hi
\* returns nil in its one step; it calls no f and submits no job, and leaves
\* the channel, the registry (no entry for g is made), the latches, the error
\* slots and the id counter as they are.
C29_EmptyRange ==
  /\ [](\A t \in Threads : \A i \in 1 .. Depth(t) :
          stack[t][i].op = "AddRangeJob" /\ stack[t][i].lo >= stack[t][i].hi =>
            i = Depth(t) /\ stack[t][i].pc = "ar_loop" /\ stack[t][i].rv = Nil)
  /\ [](\A t \in Threads : InOwn(t, "c_ranged") => Top(t).rv = Nil)
  /\ [][\A t \in Threads :
          InEmptyRange(t) /\ stack'[t] # stack[t] =>
            /\ stack'[t] = Ret(stack[t], Nil)
            /\ UNCHANGED <<channel, closed, wgm, latch, err, jobs, cnt, cntmtx, epoch>>]_vars

\* AddRangeJob has returned for an empty range and a job group without entry,
\* while a job is in the channel, another group has an entry and an error is
\* recorded
C29_Witness ==
  \E t \in Threads :
    /\ InOwn(t, "c_ranged") /\ threads >= 2
    /\ channel # <<>>
    /\ \E g \in GroupIds : wgm[g] = NoWG
    /\ \E g \in GroupIds : wgm[g] # NoWG
    /\ \E g \in GroupIds : err[g] # Nil

\* AddJob has put job j in the channel
Enqueued(j) == jobs[j].added /\ ~jobs[j].inl /\ threads >= 2

\* a worker or a thread inside Wait has taken job j from the channel
Dequeued(j) == jobs[j].st \in {"running", "done"}

\* C30 (per-producer FIFO): of two jobs that one thread, here the main
\* program, has put in the channel one after the other, the first is taken
\* from the channel for running before the second, also when Stop is called.
C30_ProducerFifo ==
  \A j, k \in 1 .. Len(jobs) :
    j < k /\ Enqueued(j) /\ Enqueued(k) /\ Dequeued(k) => Dequeued(j)

\* goroutine p has taken the zero value of job from the closed channel and
\* called its f, which is nil
InvokesZero(p) ==
  Depth(p) > 0 /\ Top(p).op \in {"Wait", "worker"} /\ Top(p).pc = "panic"

\* C31 (only submitted jobs are run): what a worker or a thread inside Wait
\* takes from the channel and invokes is a job that an AddJob call has put
\* there; a Wait(g) during or after Stop() with the latch of g above zero
\* invokes no zero-value record.
C31_OnlySubmitted ==
  /\ \A p \in Procs : ~InvokesZero(p)
  /\ \A p \in Procs : \A i \in 2 .. Depth(p) :
       stack[p][i].op = "job" /\ stack[p][i - 1].op \in {"Wait", "worker"} =>
         /\ stack[p][i].j \in 1 .. Len(jobs)
         /\ ~jobs[stack[p][i].j].inl /\ jobs[stack[p][i].j].wg # NoWG

\* the main program is in an AddJob call that it has made after Stop(): only
\* the main program calls Stop and Start, so the channel was closed before
\* the call
AddJobAfterStop ==
  /\ threads >= 2 /\ closed
  /\ Depth(0) = 2 /\ stack[0][2].op = "AddJob"

\* C32 (submission after Stop): on a pool of two or more threads an AddJob
\* call made after Stop() does not return: it panics, and neither buffers
\* nor runs its job; no step of it changes a latch or the registry.
C32_AddJobAfterStop ==
  [][AddJobAfterStop /\ stack'[0] # stack[0] =>
       /\ UNCHANGED <<latch, wgm, channel>>
       /\ Len(stack'[0]) = 2
       /\ jobs'[stack[0][2].j].st = "new" /\ jobs'[stack[0][2].j].runs = 0]_vars

\* goroutine p is in channelOpen, called by Stop or Start, and holds the job
\* it has received
PutsBack(p) == At(p, "Stop", "st_putback") \/ At(p, "Start", "sa_putback")

\* goroutine p is in Stop or Start
InStartStop(p) == Depth(p) > 0 /\ Top(p).op \in {"Stop", "Start"}

\* C33 (Start and Stop are idempotent and leave queued work alone): the
\* open-check of Start and Stop does not wait and puts the job it has looked
\* at back where it was, before the jobs behind it; Start() on a running pool
\* makes no channel and starts no worker; Stop() on a stopped pool changes
\* nothing and returns.
C33_Idempotent ==
  /\ [](\A p \in Procs : PutsBack(p) => Len(channel) < bufsize)
  /\ [][\A p \in Procs :
          PutsBack(p) /\ stack'[p] # stack[p] => channel' = <<Top(p).j>> \o channel]_vars
  /\ [][\A p \in Procs :
          InStartStop(p) /\ Top(p).op = "Start" /\ ~closed /\ stack'[p] # stack[p] =>
            /\ ~closed'
            /\ \A q \in Procs : q # p => stack'[q] = stack[q]]_vars
  /\ [][\A p \in Procs :
          InStartStop(p) /\ Top(p).op = "Stop" /\ closed /\ stack'[p] # stack[p] =>
            /\ closed' /\ channel' = channel
            /\ stack'[p] = Ret(stack[p], Nil)]_vars

\* goroutine p runs worker(i) and is executing a job
Executing(p, i) ==
  /\ Depth(p) > 1
  /\ stack[p][1].op = "worker" /\ stack[p][1].tid = i
  /\ stack[p][2].op = "job"

\* C34 (worker ids stay unique across restarts): whatever New, Stop and Start
\* calls were made, no two background workers with the same thread id execute
\* a job at the same time.
C34_UniqueWorkers ==
  \A p, q \in Procs : \A i \in 1 .. MaxThreads - 1 :
    Executing(p, i) /\ Executing(q, i) => p = q

====
